---- MODULE Spec2Model ----
(***************************************************************************)
(* Model of the tree-select widget: the selection controller               *)
(* (src/src/components/TreeSelect/TreeSelect.vue) and the recursive node   *)
(* component it renders (TreeNode.vue, src/unnamed/part_001).              *)
(*                                                                         *)
(* Nodes are numbered 1, 2, ...; the id of node k is the number k or the    *)
(* one-character string "k", as options.stringIds says (id: any).  A label  *)
(* and a search term are sequences of one-character strings.  A selection   *)
(* value is a record [kind, ids, id] with kind in                          *)
(*   {"array", "number", "string", "null", "undefined"};                   *)
(* an array holds ids, a string is the sequence of its characters, each    *)
(* the character of a node number.                                         *)
(***************************************************************************)
EXTENDS Integers, Sequences, FiniteSets, TLC

VARIABLES options, multiple, modelValue, isOpen, searchTerm, isExpanded, last

vars == <<options, multiple, modelValue, isOpen, searchTerm, isExpanded, last>>

-----------------------------------------------------------------------------
(* Bounds of the model *)

\* option trees 1..NumTrees of Tree(_) are explored
NumTrees == 3
\* at most this many nodes of a tree carry their own selectionMode
MaxOverrides == 1
\* host-supplied initial array values have at most this many entries
MaxInitLen == 1

-----------------------------------------------------------------------------
(* Values *)

Arr(s) == [kind |-> "array", ids |-> s, id |-> 0]
Num(k) == [kind |-> "number", ids |-> <<>>, id |-> k]
Str(s) == [kind |-> "string", ids |-> s, id |-> 0]

\* node.id of node k as a value
IdVal(k) == IF options.stringIds THEN Str(<<k>>) ELSE Num(k)
Null == [kind |-> "null", ids |-> <<>>, id |-> 0]
Undefined == [kind |-> "undefined", ids |-> <<>>, id |-> 0]

Range(s) == {s[i] : i \in 1..Len(s)}

-----------------------------------------------------------------------------
(* Option trees.  children[n] is the ordered child list of node n          *)
(* (empty when the node has no children), roots is the options array,      *)
(* stringIds tells whether the ids of the tree are strings or numbers.     *)

Tree1 ==
  [roots |-> <<1>>,
   children |-> (1 :> <<2, 3>>) @@ (2 :> <<>>) @@ (3 :> <<>>),
   label |-> (1 :> <<"F","r","u","i","t">>) @@ (2 :> <<"A","p","p","l","e">>)
             @@ (3 :> <<"B","a","n","a","n","a">>),
   terms |-> {},
   stringIds |-> FALSE]

Tree2 ==
  [roots |-> <<1>>,
   children |-> (1 :> <<3>>) @@ (2 :> <<>>) @@ (3 :> <<2, 4>>) @@ (4 :> <<>>),
   label |-> (1 :> <<"X">>) @@ (2 :> <<"a","B">>) @@ (3 :> <<"Y">>)
             @@ (4 :> <<"p">>),
   terms |-> {<<"B">>},
   stringIds |-> FALSE]

Tree3 ==
  [roots |-> <<1>>,
   children |-> (1 :> <<2, 3>>) @@ (2 :> <<>>) @@ (3 :> <<>>),
   label |-> (1 :> <<"A">>) @@ (2 :> <<"B">>) @@ (3 :> <<"C">>),
   terms |-> {<<"b">>},
   stringIds |-> TRUE]

Tree4 ==
  [roots |-> <<2, 1>>,
   children |-> (1 :> <<>>) @@ (2 :> <<4, 3>>) @@ (3 :> <<>>) @@ (4 :> <<>>),
   label |-> (1 :> <<"b">>) @@ (2 :> <<"Q">>) @@ (3 :> <<"p","B">>)
             @@ (4 :> <<"c">>),
   terms |-> {<<"p","b">>},
   stringIds |-> TRUE]

Tree(i) == CASE i = 1 -> Tree1 [] i = 2 -> Tree2 [] i = 3 -> Tree3 [] OTHER -> Tree4

\* the component nesting of a tree: for each node the node whose template
\* renders it, 0 for the nodes the controller renders
ParentIn(tree) ==
  [n \in DOMAIN tree.children |->
     IF \E p \in DOMAIN tree.children :
          \E i \in 1..Len(tree.children[p]) : tree.children[p][i] = n
     THEN CHOOSE p \in DOMAIN tree.children :
            \E i \in 1..Len(tree.children[p]) : tree.children[p][i] = n
     ELSE 0]

Modes == {"single", "multiple"}
NoMode == "none"

\* the selectionMode assignments with at most MaxOverrides nodes set
ModeAssignments(ids) ==
  {m \in [ids -> Modes \cup {NoMode}] :
     Cardinality({n \in ids : m[n] # NoMode}) <= MaxOverrides}

RECURSIVE SeqsUpTo(_, _)
SeqsUpTo(S, k) ==
  IF k = 0 THEN {<<>>}
  ELSE LET shorter == SeqsUpTo(S, k - 1)
       IN  shorter \cup {Append(s, x) : s \in shorter, x \in S}

-----------------------------------------------------------------------------
(* Strings: String.prototype.toLowerCase and String.prototype.includes *)

\* the upper-case letters and their lower-case forms; every other character
\* is its own lower-case form
UpperToLower ==
  [c \in {"A","B","C","D","E","F","G","H","I","J","K","L","M",
          "N","O","P","Q","R","S","T","U","V","W","X","Y","Z"} |->
     CASE c = "A" -> "a" [] c = "B" -> "b" [] c = "C" -> "c" [] c = "D" -> "d"
       [] c = "E" -> "e" [] c = "F" -> "f" [] c = "G" -> "g" [] c = "H" -> "h"
       [] c = "I" -> "i" [] c = "J" -> "j" [] c = "K" -> "k" [] c = "L" -> "l"
       [] c = "M" -> "m" [] c = "N" -> "n" [] c = "O" -> "o" [] c = "P" -> "p"
       [] c = "Q" -> "q" [] c = "R" -> "r" [] c = "S" -> "s" [] c = "T" -> "t"
       [] c = "U" -> "u" [] c = "V" -> "v" [] c = "W" -> "w" [] c = "X" -> "x"
       [] c = "Y" -> "y" [] OTHER -> "z"]

toLowerCaseChar(c) == IF c \in DOMAIN UpperToLower THEN UpperToLower[c] ELSE c

toLowerCase(s) == [i \in 1..Len(s) |-> toLowerCaseChar(s[i])]

includes(s, sub) ==
  \E i \in 0..(Len(s) - Len(sub)) :
     \A j \in 1..Len(sub) : s[i + j] = sub[j]

-----------------------------------------------------------------------------
(* JavaScript Set built from an array: insertion order, no repetition *)

\* variant: an array push in place of Set.prototype.add
SetAddPush(s, x) == Append(s, x)

SetAdd(s, x) == IF x \in Range(s) THEN s ELSE Append(s, x)

SetDelete(s, x) == SelectSeq(s, LAMBDA y : y # x)

RECURSIVE SetAddAll(_, _)
SetAddAll(s, xs) ==
  IF xs = <<>> THEN s ELSE SetAddAll(SetAdd(s, Head(xs)), Tail(xs))

SetFrom(s) == SetAddAll(<<>>, s)

RECURSIVE SetDeleteAll(_, _)
SetDeleteAll(s, xs) ==
  IF xs = <<>> THEN s ELSE SetDeleteAll(SetDelete(s, Head(xs)), Tail(xs))

-----------------------------------------------------------------------------
(* The option tree as the components see it *)

NodeIds == DOMAIN options.children

children(n) == options.children[n]

\* the parent of n, 0 for a root-level node
parentOf(n) == options.parent[n]

\* the search terms a user types
Terms == options.terms

\* the siblings prop: node.children of the parent, the default [] at the root
siblings(n) == IF parentOf(n) = 0 THEN <<>> ELSE children(parentOf(n))

-----------------------------------------------------------------------------
(* TreeNode.vue: computed properties *)

\* the multiple prop and the parentMode prop of node n, and its currentMode
RECURSIVE currentMode(_)
currentMode(n) ==
  LET p == parentOf(n)
      above == IF p = 0 THEN NoMode ELSE currentMode(p)
      multipleProp == IF p = 0 THEN multiple ELSE above = "multiple"
      parentMode == IF p = 0 THEN "multiple" ELSE above
  IN  IF options.selectionMode[n] # NoMode
      THEN options.selectionMode[n]
      ELSE IF multipleProp THEN "multiple" ELSE parentMode

hasChildren(n) == Len(children(n)) > 0

\* variant: collectIds without the recursion into node.children
collectIdsShallow(n) == <<n>>

RECURSIVE collectIds(_)
RECURSIVE collectAll(_)
collectIds(n) == <<n>> \o collectAll(children(n))
collectAll(list) ==
  IF list = <<>> THEN <<>>
  ELSE collectIds(Head(list)) \o collectAll(Tail(list))

\* variant: the collection starts at the node itself, not at its children
allDescendantIdsWithSelf(n) == IF hasChildren(n) THEN collectIds(n) ELSE <<>>

allDescendantIds(n) == IF hasChildren(n) THEN collectAll(children(n)) ELSE <<>>

isChecked(n) ==
  IF modelValue.kind = "array"
  THEN n \in Range(modelValue.ids)
  ELSE modelValue = IdVal(n)

\* variant: any selected descendant makes the node indeterminate
isIndeterminateAnySelected(n) ==
  IF currentMode(n) # "multiple" \/ ~hasChildren(n) \/ isChecked(n)
  THEN FALSE
  ELSE \E i \in 1..Len(allDescendantIds(n)) :
          /\ modelValue.kind = "array"
          /\ allDescendantIds(n)[i] \in Range(modelValue.ids)

isIndeterminate(n) ==
  IF currentMode(n) # "multiple" \/ ~hasChildren(n) \/ isChecked(n)
  THEN FALSE
  ELSE LET modelValueArray ==
             IF modelValue.kind = "array" THEN modelValue.ids ELSE <<>>
           selectedChildren ==
             SelectSeq(allDescendantIds(n),
                       LAMBDA id : id \in Range(modelValueArray))
       IN  Len(selectedChildren) > 0
           /\ Len(selectedChildren) < Len(allDescendantIds(n))

\* variant: isChildVisible without the recursion into node.children
isChildVisibleShallow(n, searchLower) ==
  includes(toLowerCase(options.label[n]), searchLower)

RECURSIVE isChildVisible(_, _)
isChildVisible(n, searchLower) ==
  \/ includes(toLowerCase(options.label[n]), searchLower)
  \/ \E i \in 1..Len(children(n)) : isChildVisible(children(n)[i], searchLower)

isVisibleFor(n, term) ==
  IF term = <<>> THEN TRUE
  ELSE LET searchLower == toLowerCase(term)
           isSelfVisible == includes(toLowerCase(options.label[n]), searchLower)
       IN  IF isSelfVisible THEN TRUE
           ELSE hasChildren(n)
                /\ \E i \in 1..Len(children(n)) :
                      isChildVisible(children(n)[i], searchLower)

isVisible(n) == isVisibleFor(n, searchTerm)

-----------------------------------------------------------------------------
(* TreeNode.vue: handleSelect.  The result holds the select events and the *)
(* update events the node emits, in emission order.                        *)

\* variant: the single branch removes every sibling, the node included
handleSelectRemoveAllSiblings(n) ==
  IF currentMode(n) = "single"
  THEN IF ~isChecked(n)
       THEN [select |-> << [hasId |-> TRUE, id |-> n, ids |-> <<n>>,
                            isSelected |-> TRUE] >>,
             update |-> << [add |-> <<n>>, remove |-> SetFrom(siblings(n))] >>]
       ELSE [select |-> <<>>,
             update |-> << [add |-> <<>>, remove |-> <<>>] >>]
  ELSE LET idsToUpdate == <<n>> \o allDescendantIds(n)
           shouldSelect == ~isChecked(n)
       IN  [select |-> << [hasId |-> FALSE, id |-> 0, ids |-> idsToUpdate,
                           isSelected |-> shouldSelect] >>,
            update |-> << [add |-> IF shouldSelect THEN SetFrom(idsToUpdate)
                                   ELSE <<>>,
                           remove |-> IF shouldSelect THEN <<>>
                                      ELSE SetFrom(idsToUpdate)] >>]

handleSelect(n) ==
  IF currentMode(n) = "single"
  THEN IF ~isChecked(n)
       THEN [select |-> << [hasId |-> TRUE, id |-> n, ids |-> <<n>>,
                            isSelected |-> TRUE] >>,
             update |-> << [add |-> <<n>>,
                            remove |-> SetFrom(SelectSeq(siblings(n),
                                                 LAMBDA s : s # n))] >>]
       ELSE [select |-> <<>>,
             update |-> << [add |-> <<>>, remove |-> <<>>] >>]
  ELSE LET idsToUpdate == <<n>> \o allDescendantIds(n)
           shouldSelect == ~isChecked(n)
       IN  [select |-> << [hasId |-> FALSE, id |-> 0, ids |-> idsToUpdate,
                           isSelected |-> shouldSelect] >>,
            update |-> << [add |-> IF shouldSelect THEN SetFrom(idsToUpdate)
                                   ELSE <<>>,
                           remove |-> IF shouldSelect THEN <<>>
                                      ELSE SetFrom(idsToUpdate)] >>]

-----------------------------------------------------------------------------
(* TreeSelect.vue: the controller *)

\* props.options.findIndex(option => option.id === id)
findIndex(id) ==
  IF \E i \in 1..Len(options.roots) : options.roots[i] = id
  THEN (CHOOSE i \in 1..Len(options.roots) :
          /\ options.roots[i] = id
          /\ \A j \in 1..(i - 1) : options.roots[j] # id) - 1
  ELSE -1

\* Array.prototype.sort (stable) under the comparator indexA - indexB
RECURSIVE sortFrom(_, _)
sortFrom(s, k) ==
  IF k >= Len(options.roots) THEN <<>>
  ELSE SelectSeq(s, LAMBDA id : findIndex(id) = k) \o sortFrom(s, k + 1)

sortedSelection(s) == sortFrom(s, -1)

currentSelection == IF modelValue.kind = "array" THEN SetFrom(modelValue.ids) ELSE <<>>

\* the result of a controller handler: the values it emits as
\* update:modelValue, and whether it called closeDropdown

\* variant: closeDropdown is called in multiple mode too
handleNodeSelectAlwaysClose(payload) ==
  IF multiple
  THEN LET sel == IF payload.isSelected
                  THEN SetAddAll(currentSelection, payload.ids)
                  ELSE SetDeleteAll(currentSelection, payload.ids)
       IN  [emitted |-> << Arr(sortedSelection(sel)) >>, close |-> TRUE]
  ELSE [emitted |-> << IF payload.hasId THEN IdVal(payload.id) ELSE Undefined >>,
        close |-> TRUE]

handleNodeSelect(payload) ==
  IF multiple
  THEN LET sel == IF payload.isSelected
                  THEN SetAddAll(currentSelection, payload.ids)
                  ELSE SetDeleteAll(currentSelection, payload.ids)
       IN  [emitted |-> << Arr(sortedSelection(sel)) >>, close |-> FALSE]
  ELSE [emitted |-> << IF payload.hasId THEN IdVal(payload.id) ELSE Undefined >>,
        close |-> TRUE]

\* variant: the removals are applied before the additions
handleNodeUpdateRemoveFirst(payload) ==
  IF multiple
  THEN LET removed == SetDeleteAll(currentSelection, payload.remove)
           sel == SetAddAll(removed, payload.add)
       IN  [emitted |-> << Arr(sortedSelection(sel)) >>, close |-> FALSE]
  ELSE IF Len(payload.add) > 0
       THEN [emitted |-> << IdVal(payload.add[1]) >>, close |-> TRUE]
       ELSE IF Len(payload.remove) > 0
            THEN [emitted |-> << Null >>, close |-> FALSE]
            ELSE [emitted |-> <<>>, close |-> FALSE]

\* variant: the removals are not applied
handleNodeUpdateNoRemove(payload) ==
  IF multiple
  THEN LET sel == SetAddAll(currentSelection, payload.add)
       IN  [emitted |-> << Arr(sortedSelection(sel)) >>, close |-> FALSE]
  ELSE IF Len(payload.add) > 0
       THEN [emitted |-> << IdVal(payload.add[1]) >>, close |-> TRUE]
       ELSE IF Len(payload.remove) > 0
            THEN [emitted |-> << Null >>, close |-> FALSE]
            ELSE [emitted |-> <<>>, close |-> FALSE]

\* variant: the single branch without the clearing of the value
handleNodeUpdateNoClear(payload) ==
  IF multiple
  THEN LET added == SetAddAll(currentSelection, payload.add)
           sel == SetDeleteAll(added, payload.remove)
       IN  [emitted |-> << Arr(sortedSelection(sel)) >>, close |-> FALSE]
  ELSE IF Len(payload.add) > 0
       THEN [emitted |-> << IdVal(payload.add[1]) >>, close |-> TRUE]
       ELSE [emitted |-> <<>>, close |-> FALSE]

handleNodeUpdate(payload) ==
  IF multiple
  THEN LET added == SetAddAll(currentSelection, payload.add)
           sel == SetDeleteAll(added, payload.remove)
       IN  [emitted |-> << Arr(sortedSelection(sel)) >>, close |-> FALSE]
  ELSE IF Len(payload.add) > 0
       THEN [emitted |-> << IdVal(payload.add[1]) >>, close |-> TRUE]
       ELSE IF Len(payload.remove) > 0
            THEN [emitted |-> << Null >>, close |-> FALSE]
            ELSE [emitted |-> <<>>, close |-> FALSE]

-----------------------------------------------------------------------------
(* The earlier revision of the two components: TreeNode.vue as              *)
(* src/unnamed/part_000 and TreeSelect.vue as src/unnamed/part_002.  The    *)
(* node takes no multiple prop and emits update events only; its           *)
(* modelValue prop is an array; on a value without an includes method       *)
(* isChecked throws a TypeError, and handleSelect, which reads isChecked    *)
(* before it emits, then emits nothing.                                     *)

RECURSIVE currentModeLegacy(_)
currentModeLegacy(n) ==
  IF options.selectionMode[n] # NoMode THEN options.selectionMode[n]
  ELSE IF parentOf(n) = 0 THEN "multiple"
  ELSE currentModeLegacy(parentOf(n))

\* the outcome of props.modelValue.includes(props.node.id): the value, or
\* the TypeError thrown.  An array tests membership, a string tests whether
\* String(node.id) occurs in it, any other value has no includes method.
isCheckedLegacy(n) ==
  IF modelValue.kind = "array"
  THEN [throws |-> FALSE, value |-> n \in Range(modelValue.ids)]
  ELSE IF modelValue.kind = "string"
  THEN [throws |-> FALSE, value |-> includes(modelValue.ids, <<n>>)]
  ELSE [throws |-> TRUE, value |-> FALSE]

handleSelectLegacy(n) ==
  IF isCheckedLegacy(n).throws THEN [update |-> <<>>]
  ELSE IF currentModeLegacy(n) = "single"
  THEN IF ~isCheckedLegacy(n).value
       THEN [update |-> << [add |-> <<n>>,
                            remove |-> SetFrom(SelectSeq(siblings(n),
                                                 LAMBDA s : s # n))] >>]
       ELSE [update |-> << [add |-> <<>>, remove |-> <<>>] >>]
  ELSE LET idsToUpdate == <<n>> \o allDescendantIds(n)
           shouldSelect == ~isCheckedLegacy(n).value
       IN  [update |-> << [add |-> IF shouldSelect THEN SetFrom(idsToUpdate)
                                   ELSE <<>>,
                           remove |-> IF shouldSelect THEN <<>>
                                      ELSE SetFrom(idsToUpdate)] >>]

handleNodeUpdateLegacy(payload) ==
  IF multiple
  THEN LET added == SetAddAll(currentSelection, payload.add)
           sel == SetDeleteAll(added, payload.remove)
       IN  [emitted |-> << Arr(sel) >>, close |-> FALSE]
  ELSE IF Len(payload.add) > 0
       THEN [emitted |-> << IdVal(payload.add[1]) >>, close |-> TRUE]
       ELSE [emitted |-> <<>>, close |-> FALSE]

-----------------------------------------------------------------------------
(* Rendering: which node components exist and can be clicked *)

\* the component of node n is mounted: the panel is open and every ancestor
\* is visible and expanded
RECURSIVE renderedFor(_, _, _, _)
renderedFor(n, open, term, expanded) ==
  /\ open
  /\ IF parentOf(n) = 0 THEN TRUE
     ELSE /\ renderedFor(parentOf(n), open, term, expanded)
          /\ isVisibleFor(parentOf(n), term)
          /\ expanded[parentOf(n)]

rendered(n) == renderedFor(n, isOpen, searchTerm, isExpanded)

\* the row of node n is in the document
clickable(n) == rendered(n) /\ isVisible(n)

\* isExpanded is ref(true) of each component instance: a node whose
\* component is unmounted starts expanded when it is mounted again
remount(open, term, expanded) ==
  [n \in NodeIds |-> IF renderedFor(n, open, term, expanded) THEN expanded[n] ELSE TRUE]

-----------------------------------------------------------------------------
(* Notions the properties are stated with, defined on the option tree      *)
(* itself and not through the components' computed properties              *)

\* node m lies strictly below node a
RECURSIVE isUnder(_, _)
isUnder(m, a) ==
  IF options.parent[m] = 0 THEN FALSE
  ELSE options.parent[m] = a \/ isUnder(options.parent[m], a)

Descendants(n) == {m \in NodeIds : isUnder(m, n)}

TargetSet(n) == {n} \cup Descendants(n)

\* the ids a value selects, read as a set
SelectedIds(v) == IF v.kind = "array" THEN Range(v.ids) ELSE {}

-----------------------------------------------------------------------------
(* State machine.  last records the most recent activation: the node, the  *)
(* value before it (pre), the events the node emitted, the values the      *)
(* controller emitted, whether closeDropdown ran, whether the node's whole  *)
(* target set was selected before it (full), and whether the activation    *)
(* before it was of the same node with its target set selected (again),    *)
(* and the search term the panel showed when the node was clicked (term).  *)

\* the values the host starts the widget with, whatever the multiple prop
\* and the type of the ids: no value, a number, a string, or an array of ids
InitValues ==
  {Null} \cup {Num(k) : k \in NodeIds}
  \cup {Str(s) : s \in SeqsUpTo(NodeIds, MaxInitLen)}
  \cup {Arr(s) : s \in SeqsUpTo(NodeIds, MaxInitLen)}

NoActivation ==
  [kind |-> "none", node |-> 0, pre |-> Null,
   select |-> <<>>, update |-> <<>>, emitted |-> <<>>, closed |-> FALSE,
   full |-> FALSE, again |-> FALSE, term |-> <<>>]

\* the configuration of the widget and its state after construction, the
\* value aside
InitConfig ==
  /\ \E t \in 1..NumTrees :
       \E m \in ModeAssignments(DOMAIN Tree(t).children) :
          options = [roots |-> Tree(t).roots, children |-> Tree(t).children,
                     label |-> Tree(t).label, selectionMode |-> m,
                     parent |-> ParentIn(Tree(t)), terms |-> Tree(t).terms,
                     stringIds |-> Tree(t).stringIds]
  /\ multiple \in BOOLEAN
  /\ isOpen = FALSE
  /\ searchTerm = <<>>
  /\ isExpanded = [n \in NodeIds |-> TRUE]
  /\ last = NoActivation

Init == InitConfig /\ modelValue \in InitValues

\* click on the selected-value wrapper
toggleDropdown ==
  /\ isOpen' = ~isOpen
  /\ isExpanded' = remount(~isOpen, searchTerm, isExpanded)
  /\ UNCHANGED <<options, multiple, modelValue, searchTerm, last>>

\* click outside the container
handleClickOutside ==
  /\ isOpen' = FALSE
  /\ searchTerm' = <<>>
  /\ isExpanded' = remount(FALSE, <<>>, isExpanded)
  /\ UNCHANGED <<options, multiple, modelValue, last>>

\* typing in the search input (v-model="searchTerm"), rendered when open
setSearchTerm(term) ==
  /\ isOpen
  /\ searchTerm' = term
  /\ isExpanded' = remount(isOpen, term, isExpanded)
  /\ UNCHANGED <<options, multiple, modelValue, isOpen, last>>

\* click on the toggle icon wrapper of node n
toggleExpand(n) ==
  /\ clickable(n)
  /\ isExpanded' =
       remount(isOpen, searchTerm,
               IF hasChildren(n) THEN [isExpanded EXCEPT ![n] = ~isExpanded[n]]
               ELSE isExpanded)
  /\ UNCHANGED <<options, multiple, modelValue, isOpen, searchTerm, last>>

\* click on the row or on the control of node n: handleSelect, the select
\* and update events relayed to the controller, its handlers, and the host's
\* v-model taking the emitted value
activate(n) ==
  /\ clickable(n)
  /\ \E ev \in {handleSelect(n)} :
     \E r1 \in {IF ev.select = <<>> THEN [emitted |-> <<>>, close |-> FALSE]
               ELSE handleNodeSelect(ev.select[1])} :
     \E r2 \in {handleNodeUpdate(ev.update[1])} :
     \E emitted \in {r1.emitted \o r2.emitted} :
     LET close == r1.close \/ r2.close
         open == IF close THEN FALSE ELSE isOpen
         term == IF close THEN <<>> ELSE searchTerm
     IN  /\ modelValue' = IF emitted = <<>> THEN modelValue
                          ELSE emitted[Len(emitted)]
         /\ isOpen' = open
         /\ searchTerm' = term
         /\ isExpanded' = remount(open, term, isExpanded)
         /\ last' = [kind |-> "activate", node |-> n, pre |-> modelValue,
                     select |-> ev.select, update |-> ev.update,
                     emitted |-> emitted, closed |-> close,
                     full |-> TargetSet(n) \subseteq SelectedIds(modelValue),
                     again |-> /\ last.kind = "activate"
                               /\ last.node = n
                               /\ last.full,
                     term |-> searchTerm]
  /\ UNCHANGED <<options, multiple>>

Next ==
  \/ toggleDropdown
  \/ handleClickOutside
  \/ \E term \in Terms \cup {<<>>} : setSearchTerm(term)
  \/ \E n \in NodeIds : toggleExpand(n)
  \/ \E n \in NodeIds : activate(n)

Spec == Init /\ [][Next]_vars

\* The selection alone.  toggleDropdown, handleClickOutside, setSearchTerm
\* and toggleExpand leave options, multiple, modelValue and last unchanged,
\* and a filtered or collapsed tree only takes rows away from the user; with
\* the panel open, no search term and every node expanded, every row can be
\* activated, so these steps reach every value the widget can reach.
NextSelect ==
  \/ toggleDropdown
  \/ \E n \in NodeIds : activate(n)

SpecSelect == Init /\ [][NextSelect]_vars

\* The panel and its search input alone
NextSearch ==
  \/ toggleDropdown
  \/ handleClickOutside
  \/ \E term \in Terms \cup {<<>>} : setSearchTerm(term)

SpecSearch == Init /\ [][NextSearch]_vars

\* Searching and selecting.  toggleExpand and handleClickOutside leave
\* options, multiple, modelValue and last unchanged; a collapsed node only
\* takes rows away from the user, and the state handleClickOutside leaves is
\* the state of a panel that was never opened, but for the value.
NextSearchSelect ==
  \/ toggleDropdown
  \/ \E term \in Terms \cup {<<>>} : setSearchTerm(term)
  \/ \E n \in NodeIds : activate(n)

SpecSearchSelect == Init /\ [][NextSearchSelect]_vars

\* the widget started with the empty selection, in multiple mode
InitEmpty == InitConfig /\ multiple /\ modelValue = Arr(<<>>)

SpecEmpty == InitEmpty /\ [][Next]_vars

-----------------------------------------------------------------------------
(* Properties *)

LastActivation == last.kind = "activate"

\* the node of the last activation was checked when it was activated
WasChecked ==
  IF last.pre.kind = "array" THEN last.node \in Range(last.pre.ids)
  ELSE last.pre = IdVal(last.node)

\* C1: in controller multiple mode with an array selection S, activating a
\* node n of effective mode multiple makes the selection S \cup T when n was
\* not checked and S \ T when it was, T = {id(n)} \cup descendantIds(n); so
\* all of T moves together and nothing outside T changes.  Every value the
\* controller emits for the activation is that set.
C1_SubtreeMovesTogether ==
  (LastActivation /\ multiple /\ last.pre.kind = "array"
     /\ currentMode(last.node) = "multiple")
  => LET S == Range(last.pre.ids)
         T == TargetSet(last.node)
         expected == IF last.node \in S THEN S \ T ELSE S \cup T
     IN  /\ modelValue.kind = "array"
         /\ Range(modelValue.ids) = expected
         /\ last.emitted # <<>>
         /\ \A i \in 1..Len(last.emitted) :
               SelectedIds(last.emitted[i]) = expected

\* a checked node with descendants, part of its subtree selected, and ids
\* outside its subtree selected, was activated and its subtree deselected
C1_Witness ==
  /\ LastActivation /\ multiple /\ last.pre.kind = "array"
  /\ currentMode(last.node) = "multiple"
  /\ Descendants(last.node) # {}
  /\ last.node \in Range(last.pre.ids)
  /\ ~(TargetSet(last.node) \subseteq Range(last.pre.ids))
  /\ Range(last.pre.ids) \ TargetSet(last.node) # {}
  /\ Range(modelValue.ids) = Range(last.pre.ids) \ TargetSet(last.node)

\* every node of the tree has effective mode multiple
AllMultiple == \A m \in NodeIds : currentMode(m) = "multiple"

\* C2 (as claimed): from the empty selection, with the controller and every
\* node in multiple mode, a node with children that reports checked has all
\* its descendant ids selected
C2_CheckedParentCoversSubtree ==
  AllMultiple =>
    \A n \in NodeIds :
       (hasChildren(n) /\ isChecked(n))
       => Descendants(n) \subseteq SelectedIds(modelValue)

\* C3 (as claimed): activating a checked node of effective mode single emits
\* no select and no update event, the controller emits nothing, the value
\* stays and the dropdown is not closed
C3_CheckedSingleIsNoOp ==
  (LastActivation /\ currentMode(last.node) = "single" /\ WasChecked)
  => /\ last.select = <<>>
     /\ last.update = <<>>
     /\ last.emitted = <<>>
     /\ modelValue = last.pre
     /\ ~last.closed

\* C4: in controller multiple mode, for a node n of effective mode multiple
\* whose whole target set T was selected in S: the activation of n left no id
\* of T selected, and the next activation of n selects all of T again, gives
\* S back as a set, and emits a changed value
C4_StrictToggle ==
  [][\A n \in NodeIds :
       (/\ LastActivation /\ last.node = n /\ last.full
        /\ multiple /\ currentMode(n) = "multiple"
        /\ activate(n))
       => /\ SelectedIds(modelValue) \cap TargetSet(n) = {}
          /\ TargetSet(n) \subseteq SelectedIds(modelValue')
          /\ SelectedIds(modelValue') = SelectedIds(last.pre)
          /\ last'.emitted # <<>>
          /\ modelValue' # modelValue]_vars

\* a node with descendants was activated twice in a row, the first time with
\* its whole target set selected
C4_Witness ==
  /\ LastActivation /\ last.again
  /\ multiple /\ currentMode(last.node) = "multiple"
  /\ Descendants(last.node) # {}
  /\ TargetSet(last.node) \subseteq SelectedIds(modelValue)
  /\ SelectedIds(modelValue) # TargetSet(last.node)

\* the add and remove lists C5 is checked on beside those the nodes emit
ProbeLists == SeqsUpTo(NodeIds, 1)

\* C5: in controller multiple mode handleNodeUpdate (of either revision)
\* applied to the selection S and a delta emits one value whose members are
\* (S \cup add) \ remove, which for disjoint add and remove is
\* (S \ remove) \cup add
C5_MergeIsUnionMinusRemove ==
  multiple =>
    /\ \A a \in ProbeLists, r \in ProbeLists :
         \A res \in {handleNodeUpdate([add |-> a, remove |-> r]),
                     handleNodeUpdateLegacy([add |-> a, remove |-> r])} :
            /\ Len(res.emitted) = 1
            /\ SelectedIds(res.emitted[1])
                 = (SelectedIds(modelValue) \cup Range(a)) \ Range(r)
    /\ LastActivation =>
         \A d \in {last.update[1]}, S \in {SelectedIds(last.pre)} :
            /\ SelectedIds(modelValue) = (S \cup Range(d.add)) \ Range(d.remove)
            /\ Range(d.add) \cap Range(d.remove) = {}
                 => SelectedIds(modelValue) = (S \ Range(d.remove)) \cup Range(d.add)

\* a delta with both additions and removals was merged into a selection
\* holding one of the removed ids and an id the delta does not name
C5_Witness ==
  /\ LastActivation /\ multiple /\ last.pre.kind = "array"
  /\ last.update[1].add # <<>>
  /\ Range(last.update[1].remove) \cap Range(last.pre.ids) # {}
  /\ Range(last.pre.ids)
       \ (Range(last.update[1].remove) \cup Range(last.update[1].add)) # {}

\* the mode the claim gives a node: its own selectionMode, else that of the
\* nearest ancestor that sets one, else the controller's
RECURSIVE ClaimedMode(_)
ClaimedMode(n) ==
  IF options.selectionMode[n] # NoMode THEN options.selectionMode[n]
  ELSE IF options.parent[n] # 0 THEN ClaimedMode(options.parent[n])
  ELSE IF multiple THEN "multiple" ELSE "single"

\* C6 (as claimed): the effective mode of every node is its own
\* selectionMode, else its nearest setting ancestor's, else "multiple" or
\* "single" as the controller's multiple prop is true or false
C6_EffectiveModeResolution ==
  \A n \in NodeIds : currentMode(n) = ClaimedMode(n)

\* C7: for a node of effective mode multiple and an array selection S,
\* isIndeterminate is false when the node has no children or is checked, and
\* otherwise true exactly when 0 < k < |descendantIds|, k the number of its
\* descendant ids in S
C7_IndeterminateIsPartial ==
  \A n \in NodeIds :
     (currentMode(n) = "multiple" /\ modelValue.kind = "array")
     => LET S == Range(modelValue.ids)
            k == Cardinality(Descendants(n) \cap S)
        IN  isIndeterminate(n) =
              IF Descendants(n) = {} \/ n \in S THEN FALSE
              ELSE 0 < k /\ k < Cardinality(Descendants(n))

\* one node is indeterminate, another unchecked node has all its
\* descendants selected and is not
C7_Witness ==
  /\ modelValue.kind = "array"
  /\ \E n \in NodeIds : currentMode(n) = "multiple" /\ isIndeterminate(n)
  /\ \E n \in NodeIds :
        /\ currentMode(n) = "multiple" /\ Descendants(n) # {}
        /\ n \notin Range(modelValue.ids)
        /\ Descendants(n) \subseteq Range(modelValue.ids)
        /\ ~isIndeterminate(n)

\* C8 (as claimed): from the empty selection in multiple mode, a node with
\* children whose descendant ids are all selected reports checked and not
\* indeterminate
C8_FullSubtreeShowsChecked ==
  AllMultiple =>
    \A n \in NodeIds :
       (hasChildren(n) /\ Descendants(n) \subseteq SelectedIds(modelValue))
       => (isChecked(n) /\ ~isIndeterminate(n))

\* C9 (as claimed): one activation makes the controller emit at most one
\* update:modelValue
C9_OneEmitPerActivation ==
  LastActivation => Len(last.emitted) <= 1

\* C10: the add and remove lists of every update delta handleSelect (of
\* either revision) emits are disjoint, for every node and in every state
C10_DeltaDisjoint ==
  /\ \A n \in NodeIds :
        \A d \in Range(handleSelect(n).update) \cup Range(handleSelectLegacy(n).update) :
           Range(d.add) \cap Range(d.remove) = {}
  /\ LastActivation =>
        Range(last.update[1].add) \cap Range(last.update[1].remove) = {}

\* a node of effective mode single with siblings was activated: the delta
\* adds it and removes its siblings
C10_Witness ==
  /\ LastActivation
  /\ currentMode(last.node) = "single"
  /\ last.update[1].add = <<last.node>>
  /\ last.update[1].remove # <<>>

\* C11: with the controller in single mode, handleNodeUpdate emits the id of
\* the activated node when the delta's add is not empty, null when add is
\* empty and remove is not, and nothing when both are empty; the value after
\* the activation is the id, null, or the value before it, accordingly
C11_SingleModeMerge ==
  ~multiple =>
    /\ \A n \in NodeIds :
         \A d \in {handleSelect(n).update[1]} :
         \A res \in {handleNodeUpdate(d)} :
            /\ d.add # <<>> => res.emitted = << IdVal(n) >>
            /\ (d.add = <<>> /\ d.remove # <<>>) => res.emitted = << Null >>
            /\ (d.add = <<>> /\ d.remove = <<>>) => res.emitted = <<>>
    /\ LastActivation =>
         \A d \in {last.update[1]} :
            /\ d.add # <<>> =>
                  /\ modelValue = IdVal(last.node)
                  /\ last.emitted[Len(last.emitted)] = IdVal(last.node)
            /\ (d.add = <<>> /\ d.remove # <<>>) =>
                  /\ modelValue = Null
                  /\ last.emitted[Len(last.emitted)] = Null
            /\ (d.add = <<>> /\ d.remove = <<>>) =>
                  /\ modelValue = last.pre
                  /\ last.emitted = <<>>

\* in single mode the selected node was activated and its remove-only delta
\* cleared the value
C11_Witness ==
  /\ LastActivation /\ ~multiple
  /\ last.pre = IdVal(last.node)
  /\ last.update[1].add = <<>>
  /\ last.update[1].remove # <<>>
  /\ modelValue = Null

\* the label of node m contains the term, letter case aside
Matches(m, term) ==
  \E i \in 0..(Len(options.label[m]) - Len(term)) :
     \A j \in 1..Len(term) :
        toLowerCaseChar(options.label[m][i + j]) = toLowerCaseChar(term[j])

\* C12: isVisible(node) is true exactly when the search term is empty, or
\* the node's label contains the term case-insensitively, or the label of a
\* node of its subtree, at any depth, does.  For the term "b" and the tree
\* A[B, C]: A and B are visible, C is not.
C12_VisibleIffSubtreeMatch ==
  /\ \A n \in NodeIds :
        /\ \A term \in Terms \cup {<<>>} :
              isVisibleFor(n, term)
                = (term = <<>> \/ \E m \in TargetSet(n) : Matches(m, term))
        /\ isVisible(n)
             = (searchTerm = <<>> \/ \E m \in TargetSet(n) : Matches(m, searchTerm))
  /\ (options.children = Tree3.children /\ options.label = Tree3.label)
       => /\ isVisibleFor(1, <<"b">>)
          /\ isVisibleFor(2, <<"b">>)
          /\ ~isVisibleFor(3, <<"b">>)

\* a search term is typed; a node is shown for a match two levels below it
\* and another node of the tree is hidden
C12_Witness ==
  /\ isOpen /\ searchTerm # <<>>
  /\ \E n \in NodeIds, m \in NodeIds :
        /\ isVisible(n) /\ ~Matches(n, searchTerm)
        /\ isUnder(m, n) /\ options.parent[m] # n /\ Matches(m, searchTerm)
        /\ \A c \in Range(children(n)) : ~Matches(c, searchTerm)
  /\ \E n \in NodeIds : ~isVisible(n)

\* C13 (as claimed): in controller multiple mode a value that is not an
\* array counts as the empty set: every node reports checked = false and
\* indeterminate = false, and the activation of a node n of effective mode
\* multiple makes the selection {id(n)} \cup descendantIds(n)
C13_NonArrayIsEmpty ==
  /\ (multiple /\ modelValue.kind # "array")
       => \A n \in NodeIds : ~isChecked(n) /\ ~isIndeterminate(n)
  /\ (LastActivation /\ multiple /\ last.pre.kind # "array"
         /\ currentMode(last.node) = "multiple")
       => /\ modelValue.kind = "array"
          /\ Range(modelValue.ids) = TargetSet(last.node)

\* two values are the same selection: the same set of ids for two arrays,
\* no selection (null or undefined) twice, the same id twice
SameSelection(v, w) ==
  IF v.kind = "array" /\ w.kind = "array" THEN Range(v.ids) = Range(w.ids)
  ELSE IF v.kind \in {"null", "undefined"} THEN w.kind \in {"null", "undefined"}
  ELSE v = w

\* C14 (as claimed): when an activation emits a select event, the value
\* handleNodeSelect derives from it and the value handleNodeUpdate derives
\* from the update event of the same activation are the same selection, for
\* every controller mode, node mode and selection
C14_SelectAgreesWithUpdate ==
  (LastActivation /\ last.select # <<>>)
  => /\ Len(last.emitted) = 2
     /\ SameSelection(last.emitted[1], last.emitted[2])

\* the ids of the option tree in the order of the options data, depth first
RECURSIVE OptionOrderOf(_)
OptionOrderOf(list) ==
  IF list = <<>> THEN <<>>
  ELSE <<Head(list)>> \o OptionOrderOf(options.children[Head(list)])
         \o OptionOrderOf(Tail(list))

OptionOrder == OptionOrderOf(options.roots)

\* C15 (as claimed): in multiple mode every sequence the controller emits
\* lists the selected ids in the order of the options data, ids of every
\* depth included, so that the sequence is a function of the set of ids
C15_EmittedInOptionOrder ==
  (LastActivation /\ multiple)
  => \A i \in 1..Len(last.emitted) :
        /\ last.emitted[i].kind = "array"
        /\ last.emitted[i].ids
             = SelectSeq(OptionOrder,
                         LAMBDA id : id \in Range(last.emitted[i].ids))

\* C16 (as claimed): in controller multiple mode, from the empty selection,
\* at most one node is checked among the single-mode children of a parent of
\* effective mode single
C16_SingleSiblingsExclusive ==
  \A p \in NodeIds :
     currentMode(p) = "single"
     => Cardinality({c \in Range(children(p)) :
                       currentMode(c) = "single" /\ isChecked(c)}) <= 1

\* a sequence without a repeated member
NoRepeat(s) == \A i \in 1..Len(s), j \in 1..Len(s) : s[i] = s[j] => i = j

\* C17: in multiple mode, from the empty selection, the value (and every
\* value the controller emits) is a sequence without a repeated id whose
\* members are ids of nodes of the option tree
C17_UniqueKnownIds ==
  /\ modelValue.kind = "array"
  /\ NoRepeat(modelValue.ids)
  /\ Range(modelValue.ids) \subseteq NodeIds
  /\ \A i \in 1..Len(last.emitted) :
        /\ last.emitted[i].kind = "array"
        /\ NoRepeat(last.emitted[i].ids)
        /\ Range(last.emitted[i].ids) \subseteq NodeIds

\* an activation added ids of which some were selected already, next to
\* ids that were not
C17_Witness ==
  /\ LastActivation /\ modelValue.kind = "array" /\ last.pre.kind = "array"
  /\ Range(last.update[1].add) \cap Range(last.pre.ids) # {}
  /\ Range(last.update[1].add) \ Range(last.pre.ids) # {}
  /\ Len(modelValue.ids) >= 3

\* C18: with the controller in single mode an activation that selects a new
\* id leaves the dropdown closed and the search term empty; with the
\* controller in multiple mode no activation changes isOpen or the search
\* term
C18_CloseOnSingleSelect ==
  [][\A n \in NodeIds :
       (/\ last'.kind = "activate" /\ last'.node = n
        /\ last'.pre = modelValue /\ last'.term = searchTerm
        /\ activate(n))
       => /\ multiple => (isOpen' = isOpen /\ searchTerm' = searchTerm)
          /\ (~multiple /\ modelValue' # modelValue
                 /\ \E k \in NodeIds : modelValue' = IdVal(k))
               => (~isOpen' /\ searchTerm' = <<>>)]_vars

\* in single mode a row found through the search was activated and became
\* the value; the dropdown is closed and the search term gone
C18_Witness ==
  /\ LastActivation /\ ~multiple
  /\ last.term # <<>>
  /\ modelValue = IdVal(last.node) /\ last.pre # modelValue
  /\ last.closed /\ ~isOpen /\ searchTerm = <<>>

\* C19 (as claimed): whenever the dropdown is closed the search term is the
\* empty string, after any sequence of header clicks, search input edits,
\* outside clicks and node activations
C19_SearchResetOnClose ==
  ~isOpen => searchTerm = <<>>

\* C20 (as claimed): every node starts expanded; toggleExpand changes the
\* isExpanded flag of its node only, and only when the node has children,
\* emits no event and leaves the selection unchanged; and no activation
\* changes the isExpanded flag of any node
C20_ExpandIndependentOfSelection ==
  /\ \A n \in NodeIds : isExpanded[n]
  /\ [][\A n \in NodeIds :
          /\ toggleExpand(n)
               => /\ \A m \in NodeIds \ {n} : isExpanded'[m] = isExpanded[m]
                  /\ isExpanded'[n] = IF hasChildren(n) THEN ~isExpanded[n]
                                       ELSE isExpanded[n]
                  /\ modelValue' = modelValue
                  /\ last' = last
          /\ (last'.kind = "activate" /\ last'.node = n /\ activate(n))
               => isExpanded' = isExpanded]_vars

\* C21: for every node n, allDescendantIds(n) holds the id of every node of
\* the subtree rooted at n other than n, each exactly once, and no other id;
\* it is empty for a node without children.  The ids a multiple-mode
\* activation names are the node's id followed by that list.
C21_DescendantIdsExact ==
  /\ \A n \in NodeIds :
        \A ids \in {allDescendantIds(n)} :
           /\ Range(ids) = Descendants(n)
           /\ NoRepeat(ids)
           /\ Len(ids) = Cardinality(Descendants(n))
           /\ n \notin Range(ids)
           /\ children(n) = <<>> => ids = <<>>
  /\ (LastActivation /\ currentMode(last.node) = "multiple")
       => \A ids \in {last.select[1].ids} :
             /\ Head(ids) = last.node
             /\ Range(Tail(ids)) = Descendants(last.node)
             /\ NoRepeat(ids)

\* a node with descendants two levels down was activated in multiple mode
\* and its delta names the node and each of its descendants
C21_Witness ==
  /\ LastActivation /\ currentMode(last.node) = "multiple"
  /\ \E m \in NodeIds :
        isUnder(m, last.node) /\ options.parent[m] # last.node
  /\ last.update[1].add = <<last.node>> \o allDescendantIds(last.node)
  /\ Len(last.update[1].add) = 1 + Cardinality(Descendants(last.node))

====
